---- MODULE Spec2Model ----
(***************************************************************************)
(* Model of SauceBot (src/Saucebot.py): the throttle, the counters, their  *)
(* persistence in sauce_stats.json and the pump workers.                   *)
(*                                                                         *)
(* Time is counted in milliseconds; time.time() is the variable now.       *)
(* Two threads call the request handlers: the Tk main loop ("ui":          *)
(* on_tomato, on_mustard, on_both) and the gpiozero callback thread        *)
(* ("gpio": on_tomato, on_mustard from the physical buttons).  Each read   *)
(* and each write of the shared dict `state` in record_served is a step of *)
(* its own; save_stats is two steps, the reads of `state` and the write of *)
(* the file.  The start of a handler up to the first record_served (the    *)
(* clock read and the comparison of too_soon, the calls of dispense) is    *)
(* one step: it reads one shared value, last_dispense_time, and a started  *)
(* worker is seen by no handler.                                           *)
(* time.sleep(s) is taken to wake exactly s after it was called.           *)
(*                                                                         *)
(* Spec         : the program with the physical buttons present, started   *)
(*                with no stats file or with one it wrote before.          *)
(* SpecNoButtons: the program when GPIOButton(...) raised (lines 41-45),   *)
(*                so that only the Tk main loop calls the handlers;        *)
(*                started with any content of the stats file.              *)
(* SpecScenario : the Tk main loop alone makes three calls at given clock  *)
(*                readings, from an empty stats file (spec.md, section 8). *)
(* SpecClamp    : dispense() called with any duration.                     *)
(* SpecNoFile   : as Spec, started with no stats file only (zero          *)
(*                counters).                                               *)
(* SpecPileUp   : the Tk main loop alone, requests as often as the         *)
(*                throttle lets them through, over a longer time.          *)
(* SpecQR       : the Tk main loop runs show_qr while the callback thread  *)
(*                handles the physical buttons, from an empty stats file.  *)
(***************************************************************************)
EXTENDS Integers, Sequences, FiniteSets, Bags, TLC

\* ---- program constants (milliseconds) ----
DEFAULT_DISPENSE_TIME_SECONDS == 1500
MIN_INTERVAL_SECONDS == 1500
MAX_DISPENSE_SECONDS == 6000
MIN_DISPENSE_SECONDS == 50

\* ---- bounds of the model ----
MaxTicks == 1
MaxRequests == 2
MaxRuns == 2
MaxFaults == 1
MaxScenarioTicks == 10
MaxClampTicks == 5
MaxClampCalls == 2
MaxPayloads == 1
MaxPileRequests == 3
MaxPileTicks == 4

\* the clock steps
LongTick == MIN_INTERVAL_SECONDS
ShortTick == MIN_INTERVAL_SECONDS \div 3

Threads == {"ui", "gpio"}
Pumps == {"tomato", "mustard"}
Keys == <<"served", "tomato_served", "mustard_served", "last_dispense_time">>
KeySet == {Keys[i] : i \in 1..Len(Keys)}

Min(a, b) == IF a < b THEN a ELSE b
Max(a, b) == IF a > b THEN a ELSE b

\* the module-level dict `state` as first built
ZeroState == [k \in KeySet |-> 0]

\* ---- JSON text: numbers are written as decimal digit strings ----
RECURSIVE Digits(_)
Digits(n) == IF n < 10 THEN <<n>> ELSE Append(Digits(n \div 10), n % 10)

RECURSIVE Number(_)
Number(ds) ==
  IF Len(ds) = 0 THEN 0
  ELSE 10 * Number(SubSeq(ds, 1, Len(ds) - 1)) + ds[Len(ds)]

Member(k, n) == [ok |-> TRUE, k |-> k, v |-> Digits(n)]
BadItem == [ok |-> FALSE, k |-> "", v |-> <<>>]

json_dumps_short(st) ==
  [kind |-> "object", items |-> [i \in 1..(Len(Keys) - 1) |-> Member(Keys[i], st[Keys[i]])]]

\* json.dumps({...}) of the four fields, in the order save_stats lists them
json_dumps(st) ==
  [kind |-> "object", items |-> [i \in 1..Len(Keys) |-> Member(Keys[i], st[Keys[i]])]]

\* state.update(j): members are stored one by one, in order; an item that is
\* not a key/value pair raises after the earlier ones were stored
RECURSIVE update(_, _)
update(st, items) ==
  IF Len(items) = 0 THEN st
  ELSE IF ~Head(items).ok THEN st
  ELSE update([st EXCEPT ![Head(items).k] = Number(Head(items).v)], Tail(items))

\* load_stats: every exception is swallowed
load_stats(st, f) ==
  CASE f.kind = "missing" -> st
    [] f.kind = "garbage" -> st
    [] f.kind = "number"  -> st
    [] f.kind = "object"  -> update(st, f.items)
    [] f.kind = "array"   -> update(st, f.items)

FileMissing == [kind |-> "missing", items |-> <<>>]
FileGarbage == [kind |-> "garbage", items |-> <<>>]
FileNumber  == [kind |-> "number", items |-> <<>>]
FilePartial == [kind |-> "object", items |-> <<Member("served", 7)>>]
FileArray   == [kind |-> "array", items |-> <<Member("served", 3), BadItem>>]
\* a file that save_stats wrote in an earlier run
ValidCounters == [served |-> 2, tomato_served |-> 1, mustard_served |-> 1,
                  last_dispense_time |-> 1000]
FileValid   == json_dumps(ValidCounters)
OwnFiles == {FileMissing, FileValid}
AnyFiles == {FileMissing, FileGarbage, FileNumber, FilePartial, FileArray, FileValid}

\* ---- throttle and clamp ----
too_soon_inverted(tnow, last) == tnow - last > MIN_INTERVAL_SECONDS
too_soon_inclusive(tnow, last) == tnow - last <= MIN_INTERVAL_SECONDS
too_soon(tnow, last) == tnow - last < MIN_INTERVAL_SECONDS

Clamp_uncapped(seconds) == Max(MIN_DISPENSE_SECONDS, seconds)
Clamp(seconds) == Max(MIN_DISPENSE_SECONDS, Min(seconds, MAX_DISPENSE_SECONDS))

VARIABLES
  now,            \* time.time(), in ms
  phase,          \* "load1", "load2", "running", "exited"
  runs,           \* number of process starts so far
  state,          \* the dict `state`
  file,           \* content of sauce_stats.json
  thr,            \* per thread: position in the handler and its locals
  waiting,        \* bag of worker threads started, not yet holding the lock
  holding,        \* bag of worker threads inside `with dispense_lock`
  dispense_lock,  \* TRUE when held
  pump,           \* output value of each pump device
  accepted,       \* history: number of requests accepted so far
  completed,      \* history: finished activations per pump
  hold,           \* history: what the last finished activation per pump was
                  \* asked for and how long it held the output on
  faults,         \* history: number of failed writes of the stats file
  saved,          \* history: the counters the stats file was last written from
  script,         \* SpecScenario: its first clock reading and the calls to make
  cfg,            \* the duration handed to dispense
  qr              \* the payloads show_qr has built, one per popup window

vars == <<now, phase, runs, state, file, thr, waiting, holding, dispense_lock,
          pump, accepted, completed, hold, faults, saved, script, cfg, qr>>

\* tmp: the value read by the statement in progress.  recs: the record_served
\* calls still to make.  History of the call in progress: tnow, last: what
\* too_soon compared when it said True; base: the counters the call was
\* accepted at; stamp: the last_dispense_time it wrote.  snap: the dict
\* save_stats has built and not yet written.
IdleThread == [pc |-> "idle", op |-> "none", recs |-> <<>>, tmp |-> 0,
               tnow |-> -1, last |-> -1, stamp |-> -1, base |-> <<>>,
               snap |-> <<>>]

Targets(op) ==
  CASE op = "tomato"  -> <<"tomato">>
    [] op = "mustard" -> <<"mustard">>
    [] op = "both"    -> <<"tomato", "mustard">>

\* the touch buttons (lines 103-105) and the physical buttons (lines 127, 129)
Ops(t) == IF t = "ui" THEN {"tomato", "mustard", "both"} ELSE {"tomato", "mustard"}

CounterKey(which) == IF which = "tomato" THEN "tomato_served" ELSE "mustard_served"

Counters(st) == <<st["served"], st["tomato_served"], st["mustard_served"]>>

NoHold == [asked |-> 0, held |-> 0]
NotSaved == [k \in KeySet |-> -1]
NoScript == [t0 |-> 0, todo |-> <<>>]

StartUp(t0, f) ==
  /\ now = t0
  /\ phase = "load1"
  /\ runs = 1
  /\ state = ZeroState
  /\ file = f
  /\ thr = [t \in Threads |-> IdleThread]
  /\ waiting = EmptyBag
  /\ holding = EmptyBag
  /\ dispense_lock = FALSE
  /\ pump = [p \in Pumps |-> FALSE]
  /\ accepted = 0
  /\ completed = [p \in Pumps |-> 0]
  /\ hold = [p \in Pumps |-> NoHold]
  /\ faults = 0
  /\ saved = IF f = FileValid THEN ValidCounters ELSE NotSaved
  /\ qr = <<>>

\* the clock reads at least MIN_INTERVAL_SECONDS, as time.time() does today
Init ==
  /\ \E f \in OwnFiles : StartUp(MIN_INTERVAL_SECONDS, f)
  /\ script = NoScript
  /\ cfg = DEFAULT_DISPENSE_TIME_SECONDS

\* main() line 205 and SauceBotUI.__init__ line 123: load_stats() runs twice
LoadStats ==
  /\ phase \in {"load1", "load2"}
  /\ state' = load_stats(state, file)
  /\ phase' = IF phase = "load1" THEN "load2" ELSE "running"
  /\ UNCHANGED <<now, runs, file, thr, waiting, holding, dispense_lock, pump,
                 accepted, completed, hold, faults, saved, script, cfg, qr>>

\* dispense(pump_device, seconds), lines 75-85: clamp, build the thread, start
\* it and return to the caller; ws is the bag of started workers
dispense(ws, pump_device, seconds, by) ==
  ws (+) SetToBag({[pump |-> pump_device, asked |-> seconds,
                    seconds |-> Clamp(seconds), by |-> by]})

\* the dispense calls of a handler: lines 158, 164, 171-172
RECURSIVE DispenseAll(_, _, _)
DispenseAll(ws, targets, by) ==
  IF targets = <<>> THEN ws
  ELSE DispenseAll(dispense(ws, Head(targets), cfg, by), Tail(targets), by)

Press_joins(t, op) ==
  /\ phase = "running"
  /\ thr[t].pc = "idle"
  /\ IF too_soon(now, state["last_dispense_time"])
     THEN /\ thr' = [thr EXCEPT ![t] = [IdleThread EXCEPT !.pc = "rejected", !.op = op,
                                          !.tnow = now,
                                          !.last = state["last_dispense_time"]]]
          /\ UNCHANGED <<waiting, accepted>>
     ELSE /\ ~dispense_lock
          /\ waiting = EmptyBag
          /\ thr' = [thr EXCEPT ![t] = [IdleThread EXCEPT !.pc = "rs_read_served",
                                          !.op = op, !.recs = Targets(op),
                                          !.base = Counters(state)]]
          /\ waiting' = DispenseAll(waiting, Targets(op), t)
          /\ accepted' = accepted + 1
  /\ UNCHANGED <<now, phase, runs, state, file, holding, dispense_lock, pump,
                 completed, hold, faults, saved, cfg, qr>>

\* on_tomato / on_mustard / on_both up to the first record_served: too_soon
\* (lines 139-143) and, unless it says True, the dispense calls
Press(t, op) ==
  /\ phase = "running"
  /\ thr[t].pc = "idle"
  /\ IF too_soon(now, state["last_dispense_time"])
     THEN /\ thr' = [thr EXCEPT ![t] = [IdleThread EXCEPT !.pc = "rejected", !.op = op,
                                          !.tnow = now,
                                          !.last = state["last_dispense_time"]]]
          /\ UNCHANGED <<waiting, accepted>>
     ELSE /\ thr' = [thr EXCEPT ![t] = [IdleThread EXCEPT !.pc = "rs_read_served",
                                          !.op = op, !.recs = Targets(op),
                                          !.base = Counters(state)]]
          /\ waiting' = DispenseAll(waiting, Targets(op), t)
          /\ accepted' = accepted + 1
  /\ UNCHANGED <<now, phase, runs, state, file, holding, dispense_lock, pump,
                 completed, hold, faults, saved, cfg, qr>>

\* record_served line 146, state["served"] += 1: the read
rs_read_served(t) ==
  /\ phase = "running"
  /\ thr[t].pc = "rs_read_served"
  /\ thr' = [thr EXCEPT ![t].tmp = state["served"], ![t].pc = "rs_write_served"]
  /\ UNCHANGED <<now, phase, runs, state, file, waiting, holding, dispense_lock,
                 pump, accepted, completed, hold, faults, saved, script, cfg, qr>>

\* record_served line 146: the write
rs_write_served(t) ==
  /\ phase = "running"
  /\ thr[t].pc = "rs_write_served"
  /\ state' = [state EXCEPT !["served"] = thr[t].tmp + 1]
  /\ thr' = [thr EXCEPT ![t].pc = "rs_read_which", ![t].tmp = 0]
  /\ UNCHANGED <<now, phase, runs, file, waiting, holding, dispense_lock,
                 pump, accepted, completed, hold, faults, saved, script, cfg, qr>>

\* record_served lines 147-150, state[which + "_served"] += 1: the read
rs_read_which(t) ==
  /\ phase = "running"
  /\ thr[t].pc = "rs_read_which"
  /\ thr' = [thr EXCEPT ![t].tmp = state[CounterKey(Head(thr[t].recs))],
                        ![t].pc = "rs_write_which"]
  /\ UNCHANGED <<now, phase, runs, state, file, waiting, holding, dispense_lock,
                 pump, accepted, completed, hold, faults, saved, script, cfg, qr>>

\* record_served lines 147-150: the write
rs_write_which(t) ==
  /\ phase = "running"
  /\ thr[t].pc = "rs_write_which"
  /\ state' = [state EXCEPT ![CounterKey(Head(thr[t].recs))] = thr[t].tmp + 1]
  /\ thr' = [thr EXCEPT ![t].pc = "rs_read_time", ![t].tmp = 0]
  /\ UNCHANGED <<now, phase, runs, file, waiting, holding, dispense_lock,
                 pump, accepted, completed, hold, faults, saved, script, cfg, qr>>

\* record_served line 151: the call of time.time()
rs_read_time(t) ==
  /\ phase = "running"
  /\ thr[t].pc = "rs_read_time"
  /\ thr' = [thr EXCEPT ![t].tmp = now, ![t].pc = "rs_write_time"]
  /\ UNCHANGED <<now, phase, runs, state, file, waiting, holding, dispense_lock,
                 pump, accepted, completed, hold, faults, saved, script, cfg, qr>>

\* record_served line 151: the store into state["last_dispense_time"]
rs_write_time(t) ==
  /\ phase = "running"
  /\ thr[t].pc = "rs_write_time"
  /\ state' = [state EXCEPT !["last_dispense_time"] = thr[t].tmp]
  /\ thr' = [thr EXCEPT ![t].pc = "save", ![t].tmp = 0, ![t].stamp = thr[t].tmp]
  /\ UNCHANGED <<now, phase, runs, file, waiting, holding, dispense_lock,
                 pump, accepted, completed, hold, faults, saved, script, cfg, qr>>

\* save_stats, lines 65-70: the dict of the four fields is built from `state`
\* before json.dumps and write_text are called
save_read(t) ==
  /\ phase = "running"
  /\ thr[t].pc = "save"
  /\ thr' = [thr EXCEPT ![t].snap = state, ![t].pc = "save_write"]
  /\ UNCHANGED <<now, phase, runs, state, file, waiting, holding, dispense_lock,
                 pump, accepted, completed, hold, faults, saved, script, cfg, qr>>

\* save_stats, line 65, when write_text succeeds: the file is overwritten with
\* the text of the dict; then the next record_served of on_both, or the end of
\* the handler
save_stats(t) ==
  /\ phase = "running"
  /\ thr[t].pc = "save_write"
  /\ file' = json_dumps(thr[t].snap)
  /\ saved' = thr[t].snap
  /\ thr' = [thr EXCEPT ![t].recs = Tail(thr[t].recs),
                        ![t].snap = <<>>,
                        ![t].pc = IF Len(thr[t].recs) > 1 THEN "rs_read_served"
                                  ELSE "return"]
  /\ UNCHANGED <<now, phase, runs, state, waiting, holding, dispense_lock,
                 pump, accepted, completed, hold, faults, script, cfg, qr>>

\* save_stats when write_text raises (OSError): nothing catches it in
\* save_stats, record_served or the handler, so the exception leaves the
\* handler.  The file is as before, or truncated when the failure came after
\* the open.
save_stats_fails(t) ==
  /\ phase = "running"
  /\ thr[t].pc = "save_write"
  /\ faults < MaxFaults
  /\ faults' = faults + 1
  /\ \E f \in {file, FileGarbage} :
       /\ file' = f
       /\ saved' = IF f = file THEN saved ELSE NotSaved
  /\ thr' = [thr EXCEPT ![t].pc = "raised"]
  /\ UNCHANGED <<now, phase, runs, state, waiting, holding, dispense_lock,
                 pump, accepted, completed, hold, script, cfg, qr>>

\* the handler is left: `return` after too_soon (lines 156, 163, 169), the end
\* of the handler, or the exception going up to the caller
Return(t) ==
  /\ phase = "running"
  /\ thr[t].pc \in {"rejected", "return", "raised"}
  /\ thr' = [thr EXCEPT ![t] = IdleThread]
  /\ UNCHANGED <<now, phase, runs, state, file, waiting, holding, dispense_lock,
                 pump, accepted, completed, hold, faults, saved, script, cfg, qr>>

Remove(bag, w) == bag (-) SetToBag({w})

Started(w) == [pump |-> w.pump, asked |-> w.asked, seconds |-> w.seconds,
               by |-> w.by, on_at |-> now]

WorkerOn_nolock(w) ==
  /\ BagIn(w, waiting)
  /\ dispense_lock' = TRUE
  /\ pump' = [pump EXCEPT ![w.pump] = TRUE]
  /\ waiting' = Remove(waiting, w)
  /\ holding' = holding (+) SetToBag({Started(w)})
  /\ UNCHANGED <<now, phase, runs, state, file, thr, accepted, completed, hold,
                 faults, saved, script, cfg, qr>>

\* worker(), lines 79-80: `with dispense_lock:` is entered, pump_device.on()
WorkerOn(w) ==
  /\ BagIn(w, waiting)
  /\ ~dispense_lock
  /\ dispense_lock' = TRUE
  /\ pump' = [pump EXCEPT ![w.pump] = TRUE]
  /\ waiting' = Remove(waiting, w)
  /\ holding' = holding (+) SetToBag({Started(w)})
  /\ UNCHANGED <<now, phase, runs, state, file, thr, accepted, completed, hold,
                 faults, saved, script, cfg, qr>>

WorkerOff_keeps_on(w) ==
  /\ BagIn(w, holding)
  /\ now >= w.on_at + w.seconds
  /\ dispense_lock' = FALSE
  /\ pump' = pump
  /\ completed' = [completed EXCEPT ![w.pump] = @ + 1]
  /\ hold' = [hold EXCEPT ![w.pump] = [asked |-> w.asked, held |-> now - w.on_at]]
  /\ holding' = Remove(holding, w)
  /\ UNCHANGED <<now, phase, runs, state, file, thr, waiting, accepted, faults,
                 saved, script, cfg, qr>>

\* worker(), lines 81-82: time.sleep(seconds) is over, pump_device.off(), the
\* lock is released and the thread ends
WorkerOff(w) ==
  /\ BagIn(w, holding)
  /\ now >= w.on_at + w.seconds
  /\ dispense_lock' = FALSE
  /\ pump' = [pump EXCEPT ![w.pump] = FALSE]
  /\ completed' = [completed EXCEPT ![w.pump] = @ + 1]
  /\ hold' = [hold EXCEPT ![w.pump] = [asked |-> w.asked, held |-> now - w.on_at]]
  /\ holding' = Remove(holding, w)
  /\ UNCHANGED <<now, phase, runs, state, file, thr, waiting, accepted, faults,
                 saved, script, cfg, qr>>

\* the wake-up times of the sleeping workers
Deadlines == {w.on_at + w.seconds : w \in BagToSet(holding)}

\* time passes, but not beyond the end of a sleep
TickTo(step, limit) ==
  /\ now < limit
  /\ \A d \in Deadlines : now < d
  /\ \E n \in {now + step} \cup Deadlines :
       /\ \A d \in Deadlines \cup {now + step} : n <= d
       /\ now' = n
  /\ UNCHANGED <<phase, runs, state, file, thr, waiting, holding, dispense_lock,
                 pump, accepted, completed, hold, faults, saved, script, cfg, qr>>

\* try_exit, lines 199-202: root.destroy() ends mainloop and main() returns;
\* the callback thread and the daemon workers end with the process, where they
\* stand.  What the outputs do when the devices are closed is up to the
\* hardware.
Exit ==
  /\ phase = "running"
  /\ thr["ui"].pc = "idle"
  /\ phase' = "exited"
  /\ thr' = [t \in Threads |-> IdleThread]
  /\ waiting' = EmptyBag
  /\ holding' = EmptyBag
  /\ dispense_lock' = FALSE
  /\ pump' \in {pump, [p \in Pumps |-> FALSE]}
  /\ UNCHANGED <<now, runs, state, file, accepted, completed, hold, faults,
                 saved, script, cfg, qr>>

\* the program is started again: module level, lines 37-53
Restart ==
  /\ phase = "exited"
  /\ runs < MaxRuns
  /\ runs' = runs + 1
  /\ phase' = "load1"
  /\ state' = ZeroState
  /\ pump' = [p \in Pumps |-> FALSE]
  /\ UNCHANGED <<now, file, thr, waiting, holding, dispense_lock, accepted,
                 completed, hold, faults, saved, script, cfg, qr>>

Request(t, op) == accepted < MaxRequests /\ Press(t, op) /\ UNCHANGED script

Tick ==
  /\ phase \in {"running", "exited"}
  /\ TickTo(LongTick, MIN_INTERVAL_SECONDS + MaxTicks * LongTick)

Next ==
  \/ LoadStats
  \/ \E t \in Threads : \E op \in Ops(t) : Request(t, op)
  \/ \E t \in Threads : rs_read_served(t)
  \/ \E t \in Threads : rs_write_served(t)
  \/ \E t \in Threads : rs_read_which(t)
  \/ \E t \in Threads : rs_write_which(t)
  \/ \E t \in Threads : rs_read_time(t)
  \/ \E t \in Threads : rs_write_time(t)
  \/ \E t \in Threads : save_read(t)
  \/ \E t \in Threads : save_stats(t)
  \/ \E t \in Threads : save_stats_fails(t)
  \/ \E t \in Threads : Return(t)
  \/ \E w \in BagToSet(waiting) : WorkerOn(w)
  \/ \E w \in BagToSet(holding) : WorkerOff(w)
  \/ Tick
  \/ Exit
  \/ Restart

Spec == Init /\ [][Next]_vars

\* ---- the program without physical buttons ----
InitNoButtons ==
  /\ \E f \in AnyFiles : StartUp(MIN_INTERVAL_SECONDS, f)
  /\ script = NoScript
  /\ cfg = DEFAULT_DISPENSE_TIME_SECONDS

NextNoButtons ==
  \/ LoadStats
  \/ \E op \in Ops("ui") : Request("ui", op)
  \/ rs_read_served("ui")
  \/ rs_write_served("ui")
  \/ rs_read_which("ui")
  \/ rs_write_which("ui")
  \/ rs_read_time("ui")
  \/ rs_write_time("ui")
  \/ save_read("ui")
  \/ save_stats("ui")
  \/ save_stats_fails("ui")
  \/ Return("ui")
  \/ \E w \in BagToSet(waiting) : WorkerOn(w)
  \/ \E w \in BagToSet(holding) : WorkerOff(w)
  \/ Tick
  \/ Exit
  \/ Restart

SpecNoButtons == InitNoButtons /\ [][NextNoButtons]_vars

\* ---- the scenario: three calls from the Tk main loop, the clock reading
\* t0, t0 + 0.5 s and t0 + 2.0 s while each handler runs ----
ScenarioCalls(t0) ==
  <<[op |-> "tomato", at |-> t0], [op |-> "mustard", at |-> t0 + 500],
    [op |-> "mustard", at |-> t0 + 2000]>>

InitScenario ==
  /\ \E t0 \in {0, MIN_INTERVAL_SECONDS} :
       /\ StartUp(t0, FileMissing)
       /\ script = [t0 |-> t0, todo |-> ScenarioCalls(t0)]
  /\ cfg = DEFAULT_DISPENSE_TIME_SECONDS

ScriptedRequest ==
  /\ script.todo # <<>>
  /\ now = Head(script.todo).at
  /\ Press("ui", Head(script.todo).op)
  /\ script' = [script EXCEPT !.todo = Tail(@)]

TickScenario ==
  /\ phase = "running"
  /\ thr["ui"].pc = "idle"
  /\ script.todo # <<>> => now < Head(script.todo).at
  /\ TickTo(ShortTick, script.t0 + MaxScenarioTicks * ShortTick)

NextScenario ==
  \/ LoadStats
  \/ ScriptedRequest
  \/ rs_read_served("ui")
  \/ rs_write_served("ui")
  \/ rs_read_which("ui")
  \/ rs_write_which("ui")
  \/ rs_read_time("ui")
  \/ rs_write_time("ui")
  \/ save_read("ui")
  \/ save_stats("ui")
  \/ Return("ui")
  \/ \E w \in BagToSet(waiting) : WorkerOn(w)
  \/ \E w \in BagToSet(holding) : WorkerOff(w)
  \/ TickScenario

SpecScenario == InitScenario /\ [][NextScenario]_vars

\* ---- dispense() called with any duration ----
Durations == {-1500, -1, 0, 1, 49, 50, 51, 1500, 5999, 6000, 6001, 7500}

InitClamp ==
  /\ StartUp(0, FileMissing)
  /\ script = NoScript
  /\ cfg \in Durations

Calls == BagCardinality(waiting) + BagCardinality(holding)
         + completed["tomato"] + completed["mustard"]

DispenseCall(p) ==
  /\ phase = "running"
  /\ Calls < MaxClampCalls
  /\ waiting' = dispense(waiting, p, cfg, "ui")
  /\ UNCHANGED <<now, phase, runs, state, file, thr, holding, dispense_lock,
                 pump, accepted, completed, hold, faults, saved, script, cfg, qr>>

TickClamp == phase = "running" /\ TickTo(LongTick, MaxClampTicks * LongTick)

NextClamp ==
  \/ LoadStats
  \/ \E p \in Pumps : DispenseCall(p)
  \/ \E w \in BagToSet(waiting) : WorkerOn(w)
  \/ \E w \in BagToSet(holding) : WorkerOff(w)
  \/ TickClamp

SpecClamp == InitClamp /\ [][NextClamp]_vars

\* ---- show_qr on the Tk main loop, requests from the physical buttons ----
\* show_qr, line 179: "served": state["served"]
qr_read_served ==
  /\ phase = "running"
  /\ thr["ui"].pc = "idle"
  /\ Len(qr) < MaxPayloads
  /\ thr' = [thr EXCEPT !["ui"] = [IdleThread EXCEPT !.pc = "qr_read_tomato",
                                      !.op = "show_qr",
                                      !.snap = <<state["served"]>>]]
  /\ UNCHANGED <<now, phase, runs, state, file, waiting, holding, dispense_lock,
                 pump, accepted, completed, hold, faults, saved, script, cfg, qr>>

\* show_qr, line 180: "tomato": state["tomato_served"]
qr_read_tomato ==
  /\ phase = "running"
  /\ thr["ui"].pc = "qr_read_tomato"
  /\ thr' = [thr EXCEPT !["ui"].pc = "qr_read_mustard",
                        !["ui"].snap = Append(@, state["tomato_served"])]
  /\ UNCHANGED <<now, phase, runs, state, file, waiting, holding, dispense_lock,
                 pump, accepted, completed, hold, faults, saved, script, cfg, qr>>

\* show_qr, lines 181-197: "mustard": state["mustard_served"], the timestamp,
\* json.dumps; the text goes into the QR image shown in a window of its own,
\* and the Tk main loop goes on handling events
qr_read_mustard ==
  /\ phase = "running"
  /\ thr["ui"].pc = "qr_read_mustard"
  /\ qr' = Append(qr, [served |-> thr["ui"].snap[1], tomato |-> thr["ui"].snap[2],
                       mustard |-> state["mustard_served"],
                       timestamp |-> now \div 1000])
  /\ thr' = [thr EXCEPT !["ui"] = IdleThread]
  /\ UNCHANGED <<now, phase, runs, state, file, waiting, holding, dispense_lock,
                 pump, accepted, completed, hold, faults, saved, script, cfg>>

InitNoFile ==
  /\ StartUp(MIN_INTERVAL_SECONDS, FileMissing)
  /\ script = NoScript
  /\ cfg = DEFAULT_DISPENSE_TIME_SECONDS

NextQR ==
  \/ LoadStats
  \/ \E op \in Ops("gpio") : Request("gpio", op)
  \/ rs_read_served("gpio")
  \/ rs_write_served("gpio")
  \/ rs_read_which("gpio")
  \/ rs_write_which("gpio")
  \/ rs_read_time("gpio")
  \/ rs_write_time("gpio")
  \/ save_read("gpio")
  \/ save_stats("gpio")
  \/ Return("gpio")
  \/ qr_read_served
  \/ qr_read_tomato
  \/ qr_read_mustard
  \/ \E w \in BagToSet(waiting) : WorkerOn(w)
  \/ \E w \in BagToSet(holding) : WorkerOff(w)
  \/ Tick

SpecQR == InitNoFile /\ [][NextQR]_vars

\* ---- requests from the Tk main loop over a longer time ----
PileRequest(op) == accepted < MaxPileRequests /\ Press("ui", op) /\ UNCHANGED script

\* a worker that finds the lock free takes it before any time has passed
TickPile ==
  /\ phase = "running"
  /\ waiting = EmptyBag \/ dispense_lock
  /\ TickTo(LongTick, MIN_INTERVAL_SECONDS + MaxPileTicks * LongTick)

NextPileUp ==
  \/ LoadStats
  \/ \E op \in Ops("ui") : PileRequest(op)
  \/ rs_read_served("ui")
  \/ rs_write_served("ui")
  \/ rs_read_which("ui")
  \/ rs_write_which("ui")
  \/ rs_read_time("ui")
  \/ rs_write_time("ui")
  \/ save_read("ui")
  \/ save_stats("ui")
  \/ Return("ui")
  \/ \E w \in BagToSet(waiting) : WorkerOn(w)
  \/ \E w \in BagToSet(holding) : WorkerOff(w)
  \/ TickPile

SpecPileUp == InitNoFile /\ [][NextPileUp]_vars

\* ---- the program with the physical buttons, first started: no stats file ----
SpecNoFile == InitNoFile /\ [][Next]_vars

(***************************************************************************)
(* The claims                                                              *)
(***************************************************************************)
Abs(x) == IF x < 0 THEN 0 - x ELSE x

\* a handler has ended on thread t: by `return` after too_soon, at its end, or
\* by an exception
Ended(t) == thr[t].pc \in {"rejected", "return", "raised"}

\* C1: two accepted requests never carry last_dispense_time stamps less than
\* MIN_INTERVAL_SECONDS apart; stated here for the requests of two handlers
\* that are in progress together.
C1_ThrottleInvariant ==
  \A t, u \in Threads :
    (t # u /\ thr[t].stamp >= 0 /\ thr[u].stamp >= 0)
      => Abs(thr[t].stamp - thr[u].stamp) >= MIN_INTERVAL_SECONDS

\* C2: whenever no handler is part-way through (after load_stats and after every
\* request, accepted or rejected), served = tomato_served + mustard_served.
C2_CounterAdditivity ==
  (phase \in {"load2", "running"} /\ \A t \in Threads : thr[t].pc = "idle" \/ Ended(t))
    => state["served"] = state["tomato_served"] + state["mustard_served"]

\* what the scenario expects after its first, second and third call
ScenarioResults ==
  /\ (Len(script.todo) = 2 /\ Ended("ui"))
       => /\ thr["ui"].pc = "return"
          /\ Counters(state) = <<1, 1, 0>>
          /\ \E w \in BagToSet(waiting) \cup BagToSet(holding) :
               w.pump = "tomato" /\ w.seconds = 1500
  /\ (Len(script.todo) = 1 /\ Ended("ui"))
       => /\ thr["ui"].pc = "rejected"
          /\ Counters(state) = <<1, 1, 0>>
          /\ state["last_dispense_time"] = script.t0
  /\ (Len(script.todo) = 0 /\ Ended("ui"))
       => /\ thr["ui"].pc = "return"
          /\ Counters(state) = <<2, 1, 1>>
  /\ completed["tomato"] > 0 => hold["tomato"].held = 1500

C5_HoldIsClamped ==
  /\ \A p \in Pumps :
       completed[p] > 0 =>
         /\ hold[p].held = (IF hold[p].asked < MIN_DISPENSE_SECONDS
                            THEN MIN_DISPENSE_SECONDS
                            ELSE IF hold[p].asked > MAX_DISPENSE_SECONDS
                                 THEN MAX_DISPENSE_SECONDS
                                 ELSE hold[p].asked)
         /\ hold[p].held >= MIN_DISPENSE_SECONDS
         /\ hold[p].held <= MAX_DISPENSE_SECONDS
  /\ \A w \in BagToSet(holding) : now - w.on_at <= MAX_DISPENSE_SECONDS

\* C5 witness: an activation asked for more than the cap has finished.
C5_CappedActivationDone ==
  /\ cfg > MAX_DISPENSE_SECONDS
  /\ completed["tomato"] = 1
  /\ hold["tomato"] = [asked |-> cfg, held |-> MAX_DISPENSE_SECONDS]

\* a stats file that holds a counters record: the four fields, as numbers
WellFormed(f) ==
  /\ f.kind = "object"
  /\ Len(f.items) = Len(Keys)
  /\ \A i \in 1..Len(Keys) : f.items[i].ok /\ f.items[i].k = Keys[i]

\* C6: after load_stats on a missing or invalid stats file the state is the
\* zero-valued one, no field taken from the file.
C6_FallbackOnCorruption ==
  (phase = "load2" /\ ~WellFormed(file)) => state = ZeroState

\* C7: load_stats after save_stats gives back, field for field, the counters
\* that were saved.
C7_RoundTrip ==
  (phase = "load2" /\ saved # NotSaved) => state = saved

\* C7 witness: a second run has loaded what the first run saved after its
\* second accepted request.
C7_Reloaded ==
  /\ runs = 2
  /\ phase = "load2"
  /\ saved # NotSaved
  /\ Counters(state) = <<2, 1, 1>>
  /\ state["last_dispense_time"] = MIN_INTERVAL_SECONDS + LongTick

\* C8: a failing write of the stats file never makes an exception leave a
\* request handler.
C8_WriteFailureContained == \A t \in Threads : thr[t].pc # "raised"

\* C9: when an accepted handler is at its return, the counters hold its
\* increments on top of what they were when it was accepted, and
\* last_dispense_time is not older than the stamp it wrote.
C9_IncludedAtReturn ==
  \A t \in Threads :
    thr[t].pc = "return" =>
      /\ state["served"] >= thr[t].base[1] + Len(Targets(thr[t].op))
      /\ thr[t].op \in {"tomato", "both"} => state["tomato_served"] >= thr[t].base[2] + 1
      /\ thr[t].op \in {"mustard", "both"} => state["mustard_served"] >= thr[t].base[3] + 1
      /\ state["last_dispense_time"] >= thr[t].stamp

\* the next step of the handler running on thread t
HandlerStep(t) ==
  \/ rs_read_served(t)
  \/ rs_write_served(t)
  \/ rs_read_which(t)
  \/ rs_write_which(t)
  \/ rs_read_time(t)
  \/ rs_write_time(t)
  \/ save_read(t)
  \/ save_stats(t)
  \/ Return(t)

\* C10: whatever the state of dispense_lock and of the workers, a handler can
\* be entered and every handler in progress can take its next step: no handler
\* waits for the lock or for a pump.
C10_NonBlocking ==
  \A t \in Threads :
    phase = "running" =>
      /\ thr[t].pc = "idle" => \A op \in Ops(t) : ENABLED Press(t, op)
      /\ thr[t].pc # "idle" => ENABLED HandlerStep(t)

\* C10 witness: on_both is at its return while one of its workers holds a pump
\* on and the other still waits for the lock.
C10_ReturnedBeforeWorkers ==
  \E t \in Threads :
    /\ thr[t].pc = "return"
    /\ dispense_lock
    /\ \E w \in BagToSet(holding) : w.by = t
    /\ \E w \in BagToSet(waiting) : w.by = t

\* C11: within a run of the program last_dispense_time never decreases, over
\* every step (load_stats, accepted and rejected requests alike), so it is
\* always the record time of the latest accepted request.
C11_StampMonotonic ==
  [][phase' # "load1"
       => state'["last_dispense_time"] >= state["last_dispense_time"]]_vars

\* C12: every record_served call raises served by exactly 1 and the counter of
\* its target by exactly 1 and leaves the other counter as it was; an accepted
\* request makes one such call per target (two for Both), all of them issued
\* by the time the handler is left.
C12_ExactIncrements ==
  [][\A t \in Threads :
       /\ (thr[t].pc = "rs_write_served" /\ thr'[t].pc = "rs_read_which")
            => state' = [state EXCEPT !["served"] = @ + 1]
       /\ (thr[t].pc = "rs_write_which" /\ thr'[t].pc = "rs_read_time")
            => state' = [state EXCEPT ![CounterKey(Head(thr[t].recs))] = @ + 1]
       /\ (thr[t].pc = "idle" /\ thr'[t].pc = "rs_read_served")
            => thr'[t].recs = Targets(thr'[t].op)
       /\ thr'[t].pc = "return" => thr'[t].recs = <<>>
       /\ thr'[t].pc = "raised" => Len(thr'[t].recs) <= 1
    ]_vars

\* C13: the two pumps of an accepted Both run at the same time: when the first
\* of its two activations ends (both hold for the same time), both outputs are
\* on.  Stated for the first accepted request, whose two workers are then the
\* only ones.
C13_BothSimultaneous ==
  [][(/\ accepted = 1
      /\ BagCardinality(waiting) + BagCardinality(holding) = 2
      /\ \E p \in Pumps : completed'[p] = completed[p] + 1)
       => \A p \in Pumps : pump[p]]_vars

\* C14: at most one worker is inside the on/sleep/off sequence of a pump, and
\* while it is there the output stays on: no later activation of the pump has
\* started or switched the output off.
C14_NoReentrantActivation ==
  \A h \in BagToSet(holding) :
    /\ CopiesIn(h, holding) = 1
    /\ \A g \in BagToSet(holding) : g.pump = h.pump => g = h
    /\ pump[h.pump]

\* C14 witness: a second activation of the tomato pump waits while the first
\* holds the output on.
C14_SecondActivationWaits ==
  /\ \E h \in BagToSet(holding) : h.pump = "tomato"
  /\ \E w \in BagToSet(waiting) : w.pump = "tomato"
  /\ pump["tomato"]

\* C15: once spawned, a worker is never lost: every step of the program leaves
\* each waiting worker waiting or lets it switch its pump on, and leaves each
\* worker that holds a pump on holding it or lets it switch the pump off and
\* end; nothing cancels an activation or takes away the worker of a pump that
\* is on.
C15_RunsToCompletion ==
  [][/\ \A w \in BagToSet(waiting) :
          \/ CopiesIn(w, waiting') >= CopiesIn(w, waiting)
          \/ \E h \in BagToSet(holding') :
               /\ [pump |-> h.pump, asked |-> h.asked, seconds |-> h.seconds,
                    by |-> h.by] = w
               /\ pump'[h.pump]
     /\ \A h \in BagToSet(holding) :
          \/ BagIn(h, holding')
          \/ /\ completed'[h.pump] = completed[h.pump] + 1
             /\ ~pump'[h.pump]
             /\ ~dispense_lock'
             /\ now >= h.on_at + h.seconds
    ]_vars

\* C16: between request handlers (no handler in progress on any thread) the
\* stats file holds exactly the four counters now in memory, as long as no
\* write of the file has failed.
C16_FileIsState ==
  (/\ phase = "running"
   /\ \A t \in Threads : thr[t].pc = "idle"
   /\ faults = 0
   /\ saved # NotSaved)
    => file = json_dumps(state)

\* C17: every payload show_qr builds holds the counters of one instant, so its
\* served is its tomato plus its mustard, also when the callback thread
\* records a request meanwhile; and no later step changes a payload once it
\* is built.
C17_PayloadIsSnapshot ==
  [][/\ \A i \in 1..Len(qr') : qr'[i].served = qr'[i].tomato + qr'[i].mustard
     /\ Len(qr') >= Len(qr)
     /\ \A i \in 1..Len(qr) : qr'[i] = qr[i]]_vars

\* the workers in bag b that drive pump p
OfPump(b, p) == BagCardinality([w \in {x \in BagToSet(b) : x.pump = p} |-> CopiesIn(w, b)])

\* C18: in the first run, from zero counters and with no failed write, when no
\* handler is in progress the counter of each pump is the number of its
\* activations completed, in progress or waiting for the lock.
C18_CountersMatchActivations ==
  (/\ runs = 1
   /\ phase = "running"
   /\ faults = 0
   /\ \A t \in Threads : thr[t].pc = "idle")
    => \A p \in Pumps :
         state[CounterKey(p)] = completed[p] + OfPump(waiting, p) + OfPump(holding, p)

Pending ==
  BagCardinality(waiting)
  + BagCardinality([h \in {x \in BagToSet(holding) : now < x.on_at + x.seconds}
                      |-> CopiesIn(h, holding)])

\* C20: with the default activation time, never more than three workers have
\* their activation still to come or going on, and between handlers no
\* activation has started more than one activation time after the latest
\* accepted request was recorded.
C20_NoPileUp ==
  /\ Pending <= 3
  /\ thr["ui"].pc = "idle" =>
       \A h \in BagToSet(holding) :
         h.on_at <= state["last_dispense_time"] + DEFAULT_DISPENSE_TIME_SECONDS

====
